---- MODULE Spec2Model ----
(***************************************************************************)
(* Race-state reconstruction engine of the F1 replay front end:            *)
(* useRaceState (frontend/src/engine/useRaceState.ts, the current version  *)
(* of the hook, lines 239-584) together with the caller that sets its      *)
(* query time (ReplayController).                                          *)
(*                                                                         *)
(* JavaScript numbers are modelled as exact rationals <<n, d>> (d > 0,     *)
(* lowest terms), so interpolation, inverse lookup and rounding are        *)
(* computed, not abstracted.  Floating-point rounding error is not         *)
(* modelled.                                                               *)
(***************************************************************************)
EXTENDS Integers, Sequences, FiniteSets, TLC

(***************************************************************************)
(* Numbers                                                                 *)
(***************************************************************************)
\* JavaScript null / undefined
null == [null |-> TRUE]

IAbs(x) == IF x < 0 THEN -x ELSE x

RECURSIVE GCD(_, _)
GCD(a, b) == IF b = 0 THEN a ELSE GCD(b, a % b)

\* the rational n/d in lowest terms with a positive denominator.  A zero
\* denominator gives the non-finite values of a JavaScript division by zero:
\* <<1, 0>> is Infinity, <<-1, 0>> is -Infinity and <<0, 0>> is NaN.
R(n, d) ==
  IF d = 0 THEN <<IF n > 0 THEN 1 ELSE IF n < 0 THEN -1 ELSE 0, 0>>
  ELSE LET g == GCD(IAbs(n), IAbs(d))
           sg == IF d < 0 THEN -1 ELSE 1
       IN  <<(sg * n) \div g, (sg * d) \div g>>

I(n) == <<n, 1>>

Add(x, y) == R(x[1] * y[2] + y[1] * x[2], x[2] * y[2])
Sub(x, y) == R(x[1] * y[2] - y[1] * x[2], x[2] * y[2])
Mul(x, y) == R(x[1] * y[1], x[2] * y[2])
Div(x, y) == R(x[1] * y[2], x[2] * y[1])
\* Number.isNaN, Number.isFinite
IsNaN(x) == x = <<0, 0>>
IsFinite(x) == x[2] # 0
\* a comparison with NaN is false
Lt(x, y) == x[1] * y[2] < y[1] * x[2]
Le(x, y) == ~IsNaN(x) /\ ~IsNaN(y) /\ x[1] * y[2] <= y[1] * x[2]
Gt(x, y) == Lt(y, x)
Ge(x, y) == Le(y, x)
RAbs(x) == <<IAbs(x[1]), x[2]>>
\* Math.floor: \div rounds towards minus infinity for a positive divisor
Floor(x) == x[1] \div x[2]
\* Math.round: the nearest integer, halves rounded up
Round(x) == (2 * x[1] + x[2]) \div (2 * x[2])
IMax(a, b) == IF a >= b THEN a ELSE b

(***************************************************************************)
(* interpolate(points, raceTime): linear scan, clamped at both ends.       *)
(* A point is [t, s, lap]; the result is null for an empty sequence.       *)
(***************************************************************************)
RECURSIVE scanFrom(_, _, _)
\* while (i < points.length && points[i].t < raceTime) i++   (0-based i)
scanFrom(points, raceTime, i) ==
  IF i < Len(points) /\ Lt(points[i + 1].t, raceTime)
  THEN scanFrom(points, raceTime, i + 1)
  ELSE i

\* interpolate with a strict comparison in the end clamp (> for >=)
interpolateStrictEndClamp(points, raceTime) ==
  IF Len(points) = 0 THEN null
  ELSE IF Le(raceTime, points[1].t) THEN points[1]
  ELSE IF Gt(raceTime, points[Len(points)].t) THEN points[Len(points)]
  ELSE LET i == scanFrom(points, raceTime, 1)
           p0 == points[i]
           p1 == points[i + 1]
           ratio == Div(Sub(raceTime, p0.t), Sub(p1.t, p0.t))
       IN  [t |-> raceTime, lap |-> p0.lap,
            s |-> Add(p0.s, Mul(ratio, Sub(p1.s, p0.s)))]

\* interpolate with the ratio measured from the later sample
interpolateInvertedRatio(points, raceTime) ==
  IF Len(points) = 0 THEN null
  ELSE IF Le(raceTime, points[1].t) THEN points[1]
  ELSE IF Ge(raceTime, points[Len(points)].t) THEN points[Len(points)]
  ELSE LET i == scanFrom(points, raceTime, 1)
           p0 == points[i]
           p1 == points[i + 1]
           ratio == Div(Sub(p1.t, raceTime), Sub(p1.t, p0.t))
       IN  [t |-> raceTime, lap |-> p0.lap,
            s |-> Add(p0.s, Mul(ratio, Sub(p1.s, p0.s)))]

interpolate(points, raceTime) ==
  IF Len(points) = 0 THEN null
  ELSE IF Le(raceTime, points[1].t) THEN points[1]
  ELSE IF Ge(raceTime, points[Len(points)].t) THEN points[Len(points)]
  ELSE LET i == scanFrom(points, raceTime, 1)
           p0 == points[i]
           p1 == points[i + 1]
           ratio == Div(Sub(raceTime, p0.t), Sub(p1.t, p0.t))
       IN  [t |-> raceTime, lap |-> p0.lap,
            s |-> Add(p0.s, Mul(ratio, Sub(p1.s, p0.s)))]

(***************************************************************************)
(* findTimeForS(points, targetS): binary search on distance.               *)
(***************************************************************************)
RECURSIVE bsearchS(_, _, _, _)
\* while (low < high) { mid = floor((low+high)/2); ... }   (0-based)
bsearchS(points, targetS, low, high) ==
  IF low < high
  THEN LET mid == (low + high) \div 2
       IN  IF Lt(points[mid + 1].s, targetS)
           THEN bsearchS(points, targetS, mid + 1, high)
           ELSE bsearchS(points, targetS, low, mid)
  ELSE low

RECURSIVE scanS(_, _, _)
\* for (i = 1; i < points.length; i++) if (points[i].s >= targetS) ...
scanS(points, targetS, i) ==
  IF i < Len(points) /\ ~Ge(points[i + 1].s, targetS)
  THEN scanS(points, targetS, i + 1)
  ELSE i

\* findTimeForS as a forward scan without clamps and without the check for
\* equal distances before the division
findTimeForSLinearScan(points, targetS) ==
  IF Len(points) = 0 THEN I(0)
  ELSE LET i == scanS(points, targetS, 1)
       IN  IF i >= Len(points) THEN points[Len(points)].t
           ELSE LET p0 == points[i]
                    p1 == points[i + 1]
                IN  Add(p0.t, Mul(Div(Sub(targetS, p0.s), Sub(p1.s, p0.s)),
                                  Sub(p1.t, p0.t)))

\* findTimeForS without the clamp at the last sample: targets beyond the
\* curve are extrapolated from its last interval
findTimeForSNoEndClamp(points, targetS) ==
  IF Len(points) = 0 THEN I(0)
  ELSE IF Le(targetS, points[1].s) THEN points[1].t
  ELSE LET i == bsearchS(points, targetS, 0, Len(points) - 1)
       IN  IF i = 0 THEN points[1].t
           ELSE LET p0 == points[i]
                    p1 == points[i + 1]
                IN  IF p1.s = p0.s THEN p0.t
                    ELSE Add(p0.t, Mul(Div(Sub(targetS, p0.s), Sub(p1.s, p0.s)),
                                       Sub(p1.t, p0.t)))

\* findTimeForS without the interpolation: the time of the sample found
findTimeForSNoRatio(points, targetS) ==
  IF Len(points) = 0 THEN I(0)
  ELSE IF Le(targetS, points[1].s) THEN points[1].t
  ELSE IF Ge(targetS, points[Len(points)].s) THEN points[Len(points)].t
  ELSE points[bsearchS(points, targetS, 0, Len(points) - 1) + 1].t

findTimeForS(points, targetS) ==
  IF Len(points) = 0 THEN I(0)
  ELSE IF Le(targetS, points[1].s) THEN points[1].t
  ELSE IF Ge(targetS, points[Len(points)].s) THEN points[Len(points)].t
  ELSE LET i == bsearchS(points, targetS, 0, Len(points) - 1)
       IN  IF i = 0 THEN points[1].t
           ELSE LET p0 == points[i]
                    p1 == points[i + 1]
                IN  IF p1.s = p0.s THEN p0.t
                    ELSE Add(p0.t, Mul(Div(Sub(targetS, p0.s), Sub(p1.s, p0.s)),
                                       Sub(p1.t, p0.t)))

(***************************************************************************)
(* interpolateLapS(points, t) of RaceRenderer: the renderer's own          *)
(* interpolation of a position curve, by binary search.  The result is a   *)
(* sample at the ends and [lap, s] in between.                             *)
(***************************************************************************)
RECURSIVE bsearchT(_, _, _, _)
\* while (low < high - 1) { mid = (low + high) >> 1; ... }   (0-based)
bsearchT(points, t, low, high) ==
  IF low < high - 1
  THEN LET mid == (low + high) \div 2
       IN  IF Le(points[mid + 1].t, t)
           THEN bsearchT(points, t, mid, high)
           ELSE bsearchT(points, t, low, mid)
  ELSE <<low, high>>

interpolateLapS(points, t) ==
  IF Len(points) = 0 THEN null
  ELSE IF Le(t, points[1].t) THEN points[1]
  ELSE IF Ge(t, points[Len(points)].t) THEN points[Len(points)]
  ELSE LET lh == bsearchT(points, t, 0, Len(points) - 1)
           p0 == points[lh[1] + 1]
           p1 == points[lh[2] + 1]
           \* (p1.t - p0.t || 1)
           dt == IF Sub(p1.t, p0.t) = I(0) THEN I(1) ELSE Sub(p1.t, p0.t)
           a == Div(Sub(t, p0.t), dt)
       IN  [lap |-> p0.lap, s |-> Add(p0.s, Mul(a, Sub(p1.s, p0.s)))]

(***************************************************************************)
(* interpolateTelemetry(points, raceTime): binary search, linear           *)
(* interpolation of the continuous channels, nearest sample for the        *)
(* discrete ones (gear, drs).  The caller passes a present array           *)
(* (line 466).                                                             *)
(***************************************************************************)
RECURSIVE bsearchTel(_, _, _, _)
\* while (low <= high) { mid = floor((low+high)/2); ... }   (0-based)
bsearchTel(points, raceTime, low, high) ==
  IF low <= high
  THEN LET mid == (low + high) \div 2
       IN  IF Lt(points[mid + 1].t, raceTime)
           THEN bsearchTel(points, raceTime, mid + 1, high)
           ELSE bsearchTel(points, raceTime, low, mid - 1)
  ELSE low

\* a + (b - a) * ratio
lerp(a, b, ratio) == Add(a, Mul(Sub(b, a), ratio))

interpolateTelemetry(points, raceTime) ==
  IF Len(points) = 0 THEN null
  ELSE IF Le(raceTime, points[1].t) THEN points[1]
  ELSE IF Ge(raceTime, points[Len(points)].t) THEN points[Len(points)]
  ELSE LET i == bsearchTel(points, raceTime, 0, Len(points) - 1)
       IN  IF i <= 0 THEN points[1]
           ELSE IF i >= Len(points) THEN points[Len(points)]
           ELSE LET p0 == points[i]
                    p1 == points[i + 1]
                    dt == Sub(p1.t, p0.t)
                IN  IF Le(dt, I(0)) THEN p0
                    ELSE LET ratio == Div(Sub(raceTime, p0.t), dt)
                         IN  [t |-> raceTime,
                              speed |-> lerp(p0.speed, p1.speed, ratio),
                              rpm |-> lerp(p0.rpm, p1.rpm, ratio),
                              gear |-> IF Lt(ratio, R(1, 2)) THEN p0.gear ELSE p1.gear,
                              throttle |-> lerp(p0.throttle, p1.throttle, ratio),
                              brake |-> lerp(p0.brake, p1.brake, ratio),
                              drs |-> IF Lt(ratio, R(1, 2)) THEN p0.drs ELSE p1.drs,
                              x |-> lerp(p0.x, p1.x, ratio),
                              y |-> lerp(p0.y, p1.y, ratio)]

(***************************************************************************)
(* Sector reveal and classification, as the hook with sector timing        *)
(* computes it for one driver (part_003 lines 168-213).  A sector duration *)
(* is a number or null; a revealed sector is [time, color].                *)
(***************************************************************************)
\* a number | null used as a condition: null, 0 and NaN are falsy
truthy(x) == x # null /\ x # I(0) /\ ~IsNaN(x)

EPSILON == R(5, 1000)

\* { s1: null, s2: null, s3: null }
NoBest == [s1 |-> null, s2 |-> null, s3 |-> null]

\* driver.laps?.find(l => l.lap === n): the first such record, or null
findLap(driver, n) ==
  IF "laps" \notin DOMAIN driver THEN null
  ELSE IF \E k \in 1..Len(driver.laps) : driver.laps[k].lap = n
       THEN driver.laps[CHOOSE k \in 1..Len(driver.laps) :
                          /\ driver.laps[k].lap = n
                          /\ \A j \in 1..(k - 1) : driver.laps[j].lap # n]
       ELSE null

getColor(val, type, globalBest, driverBest) ==
  IF truthy(globalBest[type]) /\ Le(val, Add(globalBest[type], EPSILON))
  THEN "purple"
  ELSE IF truthy(driverBest[type]) /\ Le(val, Add(driverBest[type], EPSILON))
       THEN "green"
       ELSE "yellow"

sectorsOf(driver, rdBest, currentLapNum, raceTime) ==
  LET globalBest == IF rdBest = null THEN NoBest ELSE rdBest
      driverBest == IF "bestSectors" \in DOMAIN driver THEN driver.bestSectors
                    ELSE NoBest
      lapData == findLap(driver, currentLapNum)
      prevLapData == findLap(driver, currentLapNum - 1)
      shown(val, type) == [time |-> val, color |-> getColor(val, type, globalBest, driverBest)]
  IN  IF lapData # null
      THEN LET startTime == lapData.startTime
               s1 == lapData.s1
               s2 == lapData.s2
               s3 == lapData.s3
           IN  [s1 |-> IF truthy(s1) /\ Ge(raceTime, Add(startTime, s1))
                       THEN shown(s1, "s1") ELSE null,
                s2 |-> IF truthy(s1) /\ truthy(s2)
                          /\ Ge(raceTime, Add(Add(startTime, s1), s2))
                       THEN shown(s2, "s2") ELSE null,
                s3 |-> IF truthy(s1) /\ truthy(s2) /\ truthy(s3)
                          /\ Ge(raceTime, Add(Add(Add(startTime, s1), s2), s3))
                       THEN shown(s3, "s3") ELSE null]
      ELSE IF prevLapData # null
      THEN \* fallback: the previous lap's sectors
           [s1 |-> IF truthy(prevLapData.s1) THEN shown(prevLapData.s1, "s1") ELSE null,
            s2 |-> IF truthy(prevLapData.s2) THEN shown(prevLapData.s2, "s2") ELSE null,
            s3 |-> IF truthy(prevLapData.s3) THEN shown(prevLapData.s3, "s3") ELSE null]
      ELSE NoBest

(***************************************************************************)
(* The dataset.  raceData is null (not loaded) or                          *)
(*   [track |-> [length |-> n]  (length may be absent),                    *)
(*    drivers |-> sequence of driver entries in key insertion order].      *)
(* A driver entry is null or a record with driverCode and the optional     *)
(* fields positions, pitStops, compound; an absent property is an absent   *)
(* record field.                                                           *)
(***************************************************************************)
DefaultTrackLen == 58000
GridSpacing == 16

GRID_ORDER ==
  <<"VER", "NOR", "PIA", "LEC", "SAI", "RUS", "HAM", "ALB", "ALO", "GAS",
    "HUL", "STR", "OCO", "TSU", "ZHO", "DEV", "MAG", "BOT", "SAR", "PER">>

mockCompounds == <<"SOFT", "MEDIUM", "HARD">>

\* Array.prototype.indexOf: 0-based index of the first occurrence, or -1
indexOf(seq, x) ==
  IF \E i \in 1..Len(seq) : seq[i] = x
  THEN (CHOOSE i \in 1..Len(seq) :
          seq[i] = x /\ \A j \in 1..(i - 1) : seq[j] # x) - 1
  ELSE -1

\* driverCode.charCodeAt(0) for the codes of the model's datasets
charCodeAt0(code) ==
  CASE code = "VER" -> 86
    [] code = "NOR" -> 78
    [] code = "A" -> 65
    [] code = "B" -> 66
    [] OTHER -> 67

\* driverCode.length
codeLength(code) == IF code \in {"A", "B", "C"} THEN 1 ELSE 3

\* raceData.track.length || 58000
trackLenOf(rd) ==
  IF "length" \in DOMAIN rd.track /\ rd.track.length # 0
  THEN rd.track.length
  ELSE DefaultTrackLen

\* driver.pitStops?.some(pit => raceTime >= pit.enter && raceTime <= pit.exit) ?? false
inPitAt(driver, rt) ==
  IF "pitStops" \in DOMAIN driver
  THEN \E k \in 1..Len(driver.pitStops) :
         Ge(rt, driver.pitStops[k].enter) /\ Le(rt, driver.pitStops[k].exit)
  ELSE FALSE

\* Math.max(1, Math.floor(interp.s / trackLen) + 1)
\* derivedLap without the lower bound of 1
derivedLapUnclamped(s, trackLen) == Floor(Div(s, I(trackLen))) + 1

derivedLap(s, trackLen) == IMax(1, Floor(Div(s, I(trackLen))) + 1)

\* grid synthesis: the distance shown for a driver
displayS(code, interpS, rt, trackLen) ==
  IF Lt(rt, I(1)) /\ indexOf(GRID_ORDER, code) # -1
  THEN I(trackLen - indexOf(GRID_ORDER, code) * GridSpacing)
  ELSE interpS

\* driver.compound || mockCompounds[(charCodeAt(0) + length) % 3]
compoundOf(driver) ==
  IF "compound" \in DOMAIN driver /\ driver.compound # ""
  THEN driver.compound
  ELSE mockCompounds[((charCodeAt0(driver.driverCode)
                        + codeLength(driver.driverCode)) % 3) + 1]

\* d.positions && d.positions.length > 0
hasPositions(driver) ==
  "positions" \in DOMAIN driver /\ Len(driver.positions) > 0

\* a state only for a query time inside the entry's sample times
hasStateInsideSamples(driver, rt) ==
  /\ driver # null
  /\ "positions" \in DOMAIN driver
  /\ Len(driver.positions) > 0
  /\ Le(driver.positions[1].t, rt)
  /\ Le(rt, driver.positions[Len(driver.positions)].t)

\* does the first loop push a state for this entry?  (the two early returns)
hasState(driver, rt) ==
  /\ driver # null
  /\ "positions" \in DOMAIN driver
  /\ interpolate(driver.positions, rt) # null

\* the state pushed for one driver (lines 462-502)
newState(driver, rt, trackLen) ==
  LET interp == interpolate(driver.positions, rt)
  IN  [driverCode |-> driver.driverCode,
       lap |-> derivedLap(interp.s, trackLen),
       s |-> displayS(driver.driverCode, interp.s, rt, trackLen),
       gap |-> I(0),
       interval |-> I(0),
       inPit |-> inPitAt(driver, rt),
       compound |-> compoundOf(driver),
       positionChange |-> 0]

RECURSIVE buildStates(_, _, _, _)
\* Object.values(raceData.drivers).forEach(...) from entry k on
buildStates(drivers, rt, trackLen, k) ==
  IF k > Len(drivers) THEN <<>>
  ELSE IF hasState(drivers[k], rt)
       THEN <<newState(drivers[k], rt, trackLen)>>
              \o buildStates(drivers, rt, trackLen, k + 1)
       ELSE buildStates(drivers, rt, trackLen, k + 1)

\* firstSMap[code] ?? 0: the first sample distance of the last entry with
\* that code and a non-empty positions array
firstSOf(drivers, code) ==
  LET ks == {k \in 1..Len(drivers) :
               hasPositions(drivers[k]) /\ drivers[k].driverCode = code}
  IN  IF ks = {} THEN I(0)
      ELSE drivers[CHOOSE k \in ks : \A j \in ks : j <= k].positions[1].s

\* (d as any)._distanceTraveled = d.s - firstS
withDistance(drivers, st) ==
  [i \in 1..Len(st) |->
     [driverCode |-> st[i].driverCode, lap |-> st[i].lap, s |-> st[i].s,
      gap |-> st[i].gap, interval |-> st[i].interval, inPit |-> st[i].inPit,
      compound |-> st[i].compound, positionChange |-> st[i].positionChange,
      distanceTraveled |-> Sub(st[i].s, firstSOf(drivers, st[i].driverCode))]]

(***************************************************************************)
(* Object identity.  The callback assigns to properties of the objects in  *)
(* states (lines 518, 544-575) and to prevOrderRef.current (line 580); an  *)
(* assignment reaches the dataset when its target is one of the dataset's  *)
(* own objects.  A sample object is named by its index, 0 for a new one.   *)
(***************************************************************************)
\* the object interpolate returns: the dataset's own sample at a clamp
\* (lines 324-326), a new object literal in between (lines 336-340)
interpolateRef(points, rt) ==
  IF Len(points) = 0 THEN null
  ELSE IF Le(rt, points[1].t) THEN [sample |-> 1]
  ELSE IF Ge(rt, points[Len(points)].t) THEN [sample |-> Len(points)]
  ELSE [sample |-> 0]

\* the state built on the object interpolate returned
pushedRefOntoInterp(driver, rt) == interpolateRef(driver.positions, rt)

\* the object states.push receives: the object literal of lines 491-502
pushedRef(driver, rt) == [sample |-> 0]

\* a driver entry after the assignments to the object pushed for it
driverAfter(driver, rt, trackLen) ==
  IF ~hasState(driver, rt) THEN driver
  ELSE LET ref == pushedRef(driver, rt)
       IN  IF ref.sample = 0 THEN driver
           ELSE [driver EXCEPT !.positions[ref.sample] =
                                  newState(driver, rt, trackLen) @@ @]

\* the dataset after one run of the callback
datasetAfter(rd, rt) ==
  IF rd = null THEN rd
  ELSE [rd EXCEPT !.drivers =
          [k \in 1..Len(rd.drivers) |-> driverAfter(rd.drivers[k], rt, trackLenOf(rd))]]

(***************************************************************************)
(* states.sort(compareFn).  Array.prototype.sort is modelled as V8         *)
(* computes it for arrays shorter than 64 elements: the leading run is     *)
(* found (a strictly descending one is reversed) and the rest is placed by *)
(* binary insertion.  With a consistent comparator every stable sort gives *)
(* this result; the comparator below is not always consistent.             *)
(***************************************************************************)
\* compareFn with the tie-break reversed (ascending first-sample distance)
compareFnAscendingTie(drivers, a, b) ==
  LET diff == Sub(b.distanceTraveled, a.distanceTraveled)
  IN  IF Lt(RAbs(diff), R(1, 2))
      THEN Sub(firstSOf(drivers, a.driverCode), firstSOf(drivers, b.driverCode))
      ELSE diff

\* the comparator of lines 522-532; a negative result puts a first
compareFn(drivers, a, b) ==
  LET diff == Sub(b.distanceTraveled, a.distanceTraveled)
  IN  IF Lt(RAbs(diff), R(1, 2))
      THEN Sub(firstSOf(drivers, b.driverCode), firstSOf(drivers, a.driverCode))
      ELSE diff

Negative(x) == x[1] < 0

RECURSIVE runEnd(_, _, _, _)
\* the last index (1-based) of the run that starts at 1, scanning from idx
runEnd(drivers, a, descending, idx) ==
  IF idx > Len(a) THEN idx - 1
  ELSE IF Negative(compareFn(drivers, a[idx], a[idx - 1])) = descending
       THEN runEnd(drivers, a, descending, idx + 1)
       ELSE idx - 1

Reverse(a) == [i \in 1..Len(a) |-> a[Len(a) + 1 - i]]

RECURSIVE insertionPoint(_, _, _, _, _)
\* binary search of pivot's place in a[left+1 .. right]   (0-based left, right)
insertionPoint(drivers, a, pivot, left, right) ==
  IF left < right
  THEN LET mid == left + ((right - left) \div 2)
       IN  IF Negative(compareFn(drivers, pivot, a[mid + 1]))
           THEN insertionPoint(drivers, a, pivot, left, mid)
           ELSE insertionPoint(drivers, a, pivot, mid + 1, right)
  ELSE left

RECURSIVE binaryInsertionSort(_, _, _)
\* a[1..start] is sorted; place a[start+1], a[start+2], ...   (0-based start)
binaryInsertionSort(drivers, a, start) ==
  IF start >= Len(a) THEN a
  ELSE LET pivot == a[start + 1]
           left == insertionPoint(drivers, a, pivot, 0, start)
           moved == [p \in 1..Len(a) |->
                       IF p <= left THEN a[p]
                       ELSE IF p = left + 1 THEN pivot
                       ELSE IF p <= start + 1 THEN a[p - 1]
                       ELSE a[p]]
       IN  binaryInsertionSort(drivers, moved, start + 1)

sortStates(drivers, a) ==
  IF Len(a) < 2 THEN a
  ELSE LET descending == Negative(compareFn(drivers, a[2], a[1]))
           n == runEnd(drivers, a, descending, 3)
           run == IF descending
                  THEN Reverse(SubSeq(a, 1, n)) \o SubSeq(a, n + 1, Len(a))
                  ELSE a
       IN  binaryInsertionSort(drivers, run, n)

(***************************************************************************)
(* Gaps, intervals and position change (lines 536-577).                    *)
(***************************************************************************)
\* driverKeys.find(k => drivers[k].driverCode === code): the first such entry
dataOf(drivers, code) ==
  drivers[CHOOSE k \in 1..Len(drivers) :
            /\ drivers[k].driverCode = code
            /\ \A j \in 1..(k - 1) : drivers[j].driverCode # code]

\* roundGap without the noise threshold: every raw value is rounded
roundGapNoClamp(raw) == R(Round(Mul(raw, I(1000))), 1000)

\* raw > 0.001 ? Math.round(raw * 1000) / 1000 : 0
roundGap(raw) ==
  IF Gt(raw, R(1, 1000)) THEN R(Round(Mul(raw, I(1000))), 1000) ELSE I(0)

\* the time gap of a driver to `target` (the leader or the car ahead)
timeGap(drivers, rt, myDistTraveled, target) ==
  LET targetFirstS == firstSOf(drivers, target.driverCode)
      sAtSameDist == Add(myDistTraveled, targetFirstS)
      timeAtSameS == findTimeForS(dataOf(drivers, target.driverCode).positions,
                                  sAtSameDist)
  IN  roundGap(Sub(rt, timeAtSameS))

\* gapOf without the leader's branch: the leader is projected onto its own curve
gapOfNoLeaderCase(drivers, rt, sorted, index) ==
  timeGap(drivers, rt, sorted[index + 1].distanceTraveled, sorted[1])

gapOf(drivers, rt, sorted, index) ==
  IF index = 0 THEN I(0)
  ELSE timeGap(drivers, rt, sorted[index + 1].distanceTraveled, sorted[1])

\* intervalOf projected onto the leader's curve instead of the car ahead's
intervalOfLeader(drivers, rt, sorted, index) ==
  IF index = 0 THEN I(0)
  ELSE timeGap(drivers, rt, sorted[index + 1].distanceTraveled, sorted[1])

intervalOf(drivers, rt, sorted, index) ==
  IF index = 0 THEN I(0)
  ELSE timeGap(drivers, rt, sorted[index + 1].distanceTraveled, sorted[index])

\* positionChangeOf with the sign reversed (new index minus previous index)
positionChangeOfFlipped(prevOrder, code, index) ==
  IF indexOf(prevOrder, code) # -1 THEN index - indexOf(prevOrder, code) ELSE 0

\* positionChangeOf with the previous place counted from 1
positionChangeOfRank(prevOrder, code, index) ==
  IF indexOf(prevOrder, code) # -1 THEN (indexOf(prevOrder, code) + 1) - index ELSE 0

positionChangeOf(prevOrder, code, index) ==
  IF indexOf(prevOrder, code) # -1 THEN indexOf(prevOrder, code) - index ELSE 0

\* withGaps taking the previous frame's leader for the leader
withGapsPrevLeader(drivers, rt, prevOrder, sorted) ==
  [i \in 1..Len(sorted) |->
     [driverCode |-> sorted[i].driverCode, lap |-> sorted[i].lap,
      s |-> sorted[i].s,
      gap |-> IF prevOrder # <<>> /\ sorted[i].driverCode = prevOrder[1]
              THEN I(0)
              ELSE timeGap(drivers, rt, sorted[i].distanceTraveled, sorted[1]),
      interval |-> intervalOf(drivers, rt, sorted, i - 1),
      inPit |-> sorted[i].inPit, compound |-> sorted[i].compound,
      positionChange |-> positionChangeOf(prevOrder, sorted[i].driverCode, i - 1),
      distanceTraveled |-> sorted[i].distanceTraveled]]

withGaps(drivers, rt, prevOrder, sorted) ==
  [i \in 1..Len(sorted) |->
     [driverCode |-> sorted[i].driverCode, lap |-> sorted[i].lap,
      s |-> sorted[i].s,
      gap |-> gapOf(drivers, rt, sorted, i - 1),
      interval |-> intervalOf(drivers, rt, sorted, i - 1),
      inPit |-> sorted[i].inPit, compound |-> sorted[i].compound,
      positionChange |-> positionChangeOf(prevOrder, sorted[i].driverCode, i - 1),
      distanceTraveled |-> sorted[i].distanceTraveled]]

codesOf(st) == [i \in 1..Len(st) |-> st[i].driverCode]

(***************************************************************************)
(* useRaceState: one run of the memoised callback.  The result is          *)
(* [threw, states, prevOrder]: whether a TypeError escaped, the snapshot   *)
(* returned and the value of prevOrderRef.current afterwards.              *)
(***************************************************************************)
\* line 511 reads d.positions of every entry: a null entry raises TypeError
throwsOn(rd) == \E k \in 1..Len(rd.drivers) : rd.drivers[k] = null

useRaceState(rd, rt, prevOrder) ==
  IF rd = null THEN [threw |-> FALSE, states |-> <<>>, prevOrder |-> prevOrder]
  ELSE IF throwsOn(rd)
       THEN [threw |-> TRUE, states |-> <<>>, prevOrder |-> prevOrder]
  ELSE LET built == buildStates(rd.drivers, rt, trackLenOf(rd), 1)
           sorted == sortStates(rd.drivers, withDistance(rd.drivers, built))
           final == withGaps(rd.drivers, rt, prevOrder, sorted)
       IN  IF Len(built) = 0
           THEN [threw |-> FALSE, states |-> <<>>, prevOrder |-> prevOrder]
           ELSE [threw |-> FALSE, states |-> final, prevOrder |-> codesOf(final)]

(***************************************************************************)
(* Datasets and query times explored.                                      *)
(***************************************************************************)
MaxDrivers == 2
MaxSamples == 2
SampleStep == 4
FarOffset == 20
ShortTrack == 20

\* distance gained per sample interval
Incs == {0, 1, 2}

\* n samples at times 0, SampleStep, ...: distance s0 at first, then growing
\* by inc per sample (non-decreasing: the dataset's precondition)
curve(s0, inc, n) ==
  [k \in 1..n |->
     [t |-> I(SampleStep * (k - 1)), s |-> I(s0 + inc * (k - 1)), lap |-> k]]

\* no sample, one sample on the line, or MaxSamples samples that start on
\* the line or FarOffset (more than a grid slot) away from it
Curves ==
  {<<>>, curve(0, 0, 1)} \cup
  {curve(s0, inc, MaxSamples) : <<s0, inc>> \in {0, FarOffset} \X Incs}

\* the optional fields ride on two of the curves
withCode(c, code) ==
  IF c = curve(0, 2, MaxSamples)
  THEN [driverCode |-> code, positions |-> c, compound |-> "SOFT",
        pitStops |-> <<[lap |-> 1, enter |-> I(1), exit |-> I(SampleStep)]>>]
  ELSE IF c = curve(0, 1, MaxSamples)
  THEN [driverCode |-> code, positions |-> c, compound |-> "",
        pitStops |-> <<>>]
  ELSE [driverCode |-> code, positions |-> c]

\* what a driver key may hold besides null: an entry without positions, or
\* one of the curves
Shapes == Curves \cup {<<[absent |-> TRUE]>>}

entry(shape, code) ==
  IF shape = <<[absent |-> TRUE]>> THEN [driverCode |-> code] ELSE withCode(shape, code)

\* a track with or without its length, and the driver codes in key order
Layouts ==
  {[track |-> [points |-> <<>>], codes |-> <<"A", "B", "VER", "NOR">>],
   [track |-> [points |-> <<>>, length |-> ShortTrack],
    codes |-> <<"NOR", "VER", "A", "B">>]}

\* three competitors that start level, two samples each
Trios ==
  {[track |-> lay.track,
    drivers |-> [i \in 1..3 |-> withCode(curve(0, inc[i], 2), lay.codes[i])]] :
     <<lay, inc>> \in Layouts \X [1..3 -> Incs]}

\* an invalid (null) entry, alone or after a valid one
Invalid ==
  {[track |-> [points |-> <<>>], drivers |-> <<null>>],
   [track |-> [points |-> <<>>],
    drivers |-> <<withCode(curve(0, 1, 2), "A"), null>>]}

\* the scenario of the specification: track length 1000, competitors A and B
ScenarioA ==
  [driverCode |-> "A",
   positions |-> <<[t |-> I(0), s |-> I(0), lap |-> 1],
                   [t |-> I(10), s |-> I(500), lap |-> 1],
                   [t |-> I(20), s |-> I(1000), lap |-> 1]>>]
ScenarioB ==
  [driverCode |-> "B",
   positions |-> <<[t |-> I(0), s |-> I(-50), lap |-> 1],
                   [t |-> I(10), s |-> I(450), lap |-> 1],
                   [t |-> I(20), s |-> I(950), lap |-> 1]>>]
ScenarioTrack == [points |-> <<>>, length |-> 1000]
Scenarios ==
  {[track |-> ScenarioTrack, drivers |-> <<ScenarioA, ScenarioB>>],
   [track |-> ScenarioTrack, drivers |-> <<ScenarioB, ScenarioA>>]}

\* a competitor that starts behind the line and crosses it into lap 2,
\* next to one that stays in lap 1
LapCrossing ==
  {[track |-> [points |-> <<>>, length |-> ShortTrack],
    drivers |-> <<[driverCode |-> "A",
                   positions |-> <<[t |-> I(0), s |-> I(-2), lap |-> 1],
                                   [t |-> I(SampleStep), s |-> I(ShortTrack + 2),
                                    lap |-> 2]>>],
                  withCode(curve(0, 1, MaxSamples), "B")>>]}

Datasets ==
  Scenarios \cup Invalid \cup Trios \cup LapCrossing \cup
  UNION {{[track |-> lay.track,
           drivers |-> [i \in 1..n |-> entry(sh[i], lay.codes[i])]] :
            sh \in [1..n -> Shapes]} :
          <<lay, n>> \in Layouts \X (0..MaxDrivers)}

\* before, at and after the samples.  1/800 is inside the grid window and
\* next to the gap noise threshold; 10 is the scenario's query time.
QueryTimes == {I(-1), I(0), R(1, 800), I(1), I(4), I(10)}

(***************************************************************************)
(* The replay session: ReplayController holds raceData and raceTime and    *)
(* passes them to useRaceState on every render.                            *)
(***************************************************************************)
VARIABLES
  raceData,      \* useState<RaceData | null>
  raceTime,      \* useState(0)
  maxTime,       \* useState(0)
  prevOrderRef,  \* useRef<string[]>([]) of the hook
  raceState,     \* the memoised value useRaceState returned last
  threw,         \* a render raised: the component tree is gone
  samples,       \* a sample sequence handed to one of the curve functions
  query,         \* the query time or target distance handed with it
  called,        \* the function that was applied, "none" before
  returned,      \* what it returned
  competitor,    \* a driver entry handed to the sector reveal
  bestSectors,   \* raceData.bestSectors handed with it (null when absent)
  playing,       \* useState(false)
  speed,         \* useState(1)
  rafRef,        \* useRef<number | null>(null): handle of the requested frame
  lastFrameRef,  \* useRef<number | null>(null): timestamp of the last frame
  callbacks,     \* the window's list of animation frame callbacks
  lastHandle,    \* the window's animation frame callback identifier
  frameTime,     \* the timestamp the window handed to a callback last
  sessions,      \* two instances of the hook, each with its own useRef
  alone          \* each instance as it is when the other is never called

\* the replay session's state, and the state of a single function call
sessionVars == <<raceData, raceTime, maxTime, prevOrderRef, raceState, threw>>
callVars == <<samples, query, called, returned, competitor, bestSectors>>
clockVars == <<playing, speed, rafRef, lastFrameRef, callbacks, lastHandle, frameTime>>
pairVars == <<sessions, alone>>
vars == <<raceData, raceTime, maxTime, prevOrderRef, raceState, threw,
          samples, query, called, returned, competitor, bestSectors,
          playing, speed, rafRef, lastFrameRef, callbacks, lastHandle,
          frameTime, sessions, alone>>

\* null in a useRef<number | null>: a tuple, as the numbers are, so that the
\* two compare
none == <<>>

\* the controller before Play was ever pressed and no frame was requested
clockInit ==
  /\ playing = FALSE
  /\ speed = I(1)
  /\ rafRef = none
  /\ lastFrameRef = none
  /\ callbacks = {}
  /\ lastHandle = 0
  /\ frameTime = I(0)

\* a hook instance after its first render with (null, 0)
mounted ==
  [raceData |-> null, raceTime |-> I(0), prevOrderRef |-> <<>>,
   raceState |-> <<>>, threw |-> FALSE]

pairInit ==
  /\ sessions = <<mounted, mounted>>
  /\ alone = <<mounted, mounted>>

\* a render with the props rd, rt: useMemo runs the callback only when a
\* dependency changed
render(rd, rt) ==
  IF rd = raceData /\ rt = raceTime
  THEN UNCHANGED <<prevOrderRef, raceState, threw>>
  ELSE \E r \in {useRaceState(rd, rt, prevOrderRef)} :
         /\ threw' = r.threw
         /\ raceState' = r.states
         /\ prevOrderRef' = r.prevOrder

\* the dataset after that render: the callback's assignments, when it ran
afterRender(rd, rt) ==
  IF rd = raceData /\ rt = raceTime THEN rd ELSE datasetAfter(rd, rt)

RECURSIVE lastSampleMax(_, _, _)
\* the load handler's maxT over the entries from k on (part_001 lines 35-39)
lastSampleMax(drivers, k, acc) ==
  IF k > Len(drivers) THEN acc
  ELSE IF Len(drivers[k].positions) = 0 THEN lastSampleMax(drivers, k + 1, acc)
  ELSE LET t == drivers[k].positions[Len(drivers[k].positions)].t
       IN  lastSampleMax(drivers, k + 1, IF Gt(t, acc) THEN t ELSE acc)

\* d.positions.length raises for an entry without positions: the handler's
\* catch logs it and setMaxTime is never reached
loadRaises(rd) ==
  \E k \in 1..Len(rd.drivers) :
     rd.drivers[k] = null \/ "positions" \notin DOMAIN rd.drivers[k]

Init ==
  /\ raceData = null
  /\ raceTime = I(0)
  /\ maxTime = I(0)
  /\ prevOrderRef = <<>>
  /\ raceState = <<>>
  /\ threw = FALSE
  /\ samples = <<>>
  /\ query = I(0)
  /\ called = "none"
  /\ returned = null
  /\ competitor = null
  /\ bestSectors = null
  /\ clockInit
  /\ pairInit

\* the fetch resolves: setRaceData(data), setMaxTime(maxT)
LoadRaceData(d) ==
  /\ ~threw
  /\ raceData = null
  /\ raceData' = afterRender(d, raceTime)
  /\ maxTime' = IF loadRaises(d) THEN maxTime ELSE lastSampleMax(d.drivers, 1, I(0))
  /\ UNCHANGED raceTime
  /\ render(d, raceTime)
  /\ UNCHANGED <<callVars, clockVars, pairVars>>

\* the caller hands the hook a new query time (the time engine's
\* setRaceTime, or any other caller of the hook).  Until the data is loaded
\* maxTime is 0 and the time engine keeps raceTime at 0.
SetRaceTime(t) ==
  /\ ~threw
  /\ raceData # null
  /\ raceTime' = t
  /\ raceData' = afterRender(raceData, t)
  /\ UNCHANGED maxTime
  /\ render(raceData, t)
  /\ UNCHANGED <<callVars, clockVars, pairVars>>

\* the timeline slider's onChange: a seek to any time of the slider's range
Scrub(t) ==
  /\ ~threw
  /\ Le(I(0), t) /\ Le(t, maxTime)
  /\ raceTime' = t
  /\ raceData' = afterRender(raceData, t)
  /\ UNCHANGED maxTime
  /\ render(raceData, t)
  /\ UNCHANGED <<callVars, clockVars, pairVars>>

\* the Reset button: setPlaying(false); setRaceTime(0)
Reset ==
  /\ ~threw
  /\ raceTime' = I(0)
  /\ raceData' = afterRender(raceData, I(0))
  /\ UNCHANGED maxTime
  /\ render(raceData, I(0))
  /\ UNCHANGED <<callVars, clockVars, pairVars>>

Next ==
  \/ \E d \in Datasets : LoadRaceData(d)
  \/ \E t \in QueryTimes : SetRaceTime(t)
  \/ \E t \in QueryTimes : Scrub(t)
  \/ Reset

Spec == Init /\ [][Next]_vars

(***************************************************************************)
(* The curve functions on their own: one call of interpolate,              *)
(* interpolateLapS, interpolateTelemetry or findTimeForS on a time-sorted  *)
(* sample sequence (repeated times allowed, distances in any order).       *)
(***************************************************************************)
MaxPoints == 3
SampleTimes == {0, 4, 8}
Distances == {0, 1, 2}

\* the samples (0,0),(10,100),(20,300) of the specification's example
ExactnessSamples ==
  <<[t |-> I(0), s |-> I(0), lap |-> 1],
    [t |-> I(10), s |-> I(100), lap |-> 2],
    [t |-> I(20), s |-> I(300), lap |-> 3]>>

SortedTimes(n) ==
  {ts \in [1..n -> SampleTimes] : \A i \in 1..(n - 1) : ts[i] <= ts[i + 1]}

\* sample k carries lap k, so the lap tells which sample a result came from
SampleSeqs ==
  {ExactnessSamples} \cup
  UNION {{[k \in 1..n |-> [t |-> I(ts[k]), s |-> I(ds[k]), lap |-> k]] :
            <<ts, ds>> \in SortedTimes(n) \X [1..n -> Distances]} :
          n \in 0..MaxPoints}

\* query times and target distances: below, at, between and above the samples
Queries ==
  {I(-1), I(0), R(1, 2), I(1), R(3, 2), I(2), I(3), I(4), I(5), I(6), I(8),
   I(9), I(15)}

\* a position curve as a telemetry stream: the distance on every continuous
\* channel, the lap on the discrete ones
telemetryOf(points) ==
  [k \in 1..Len(points) |->
     [t |-> points[k].t, speed |-> points[k].s, rpm |-> points[k].s,
      gear |-> points[k].lap, throttle |-> points[k].s, brake |-> points[k].s,
      drs |-> points[k].lap, x |-> points[k].s, y |-> points[k].s]]

CallInit ==
  /\ raceData = null
  /\ raceTime = I(0)
  /\ maxTime = I(0)
  /\ prevOrderRef = <<>>
  /\ raceState = <<>>
  /\ threw = FALSE
  /\ samples \in SampleSeqs
  /\ query \in Queries
  /\ called = "none"
  /\ returned = null
  /\ competitor = null
  /\ bestSectors = null
  /\ clockInit
  /\ pairInit

CallInterpolate ==
  /\ called = "none"
  /\ called' = "interpolate"
  /\ returned' = interpolate(samples, query)
  /\ UNCHANGED <<samples, query, competitor, bestSectors, sessionVars, clockVars, pairVars>>

CallInterpolateLapS ==
  /\ called = "none"
  /\ called' = "interpolateLapS"
  /\ returned' = interpolateLapS(samples, query)
  /\ UNCHANGED <<samples, query, competitor, bestSectors, sessionVars, clockVars, pairVars>>

CallInterpolateTelemetry ==
  /\ called = "none"
  /\ called' = "interpolateTelemetry"
  /\ returned' = interpolateTelemetry(telemetryOf(samples), query)
  /\ UNCHANGED <<samples, query, competitor, bestSectors, sessionVars, clockVars, pairVars>>

CallFindTimeForS ==
  /\ called = "none"
  /\ called' = "findTimeForS"
  /\ returned' = [time |-> findTimeForS(samples, query)]
  /\ UNCHANGED <<samples, query, competitor, bestSectors, sessionVars, clockVars, pairVars>>

CallNext ==
  \/ CallInterpolate
  \/ CallInterpolateLapS
  \/ CallInterpolateTelemetry
  \/ CallFindTimeForS

CallSpec == CallInit /\ [][CallNext]_vars

(***************************************************************************)
(* The sector reveal on its own: the build-loop step of the hook with      *)
(* sector timing for one driver, whose lap is derived from its             *)
(* interpolated distance (part_003 lines 153-224).                         *)
(***************************************************************************)
SectorDurations == {null, I(0), I(1), I(2)}

\* a lap of the track takes the curve four seconds: lap 1 until t = 4,
\* lap 2 until t = 8
SectorTrack == [points |-> <<>>, length |-> 2]
SectorCurve ==
  <<[t |-> I(0), s |-> I(0), lap |-> 1], [t |-> I(8), s |-> I(4), lap |-> 1]>>

LapRecords(lap, startTime) ==
  {[lap |-> lap, startTime |-> I(startTime), s1 |-> d[1], s2 |-> d[2], s3 |-> d[3]] :
     d \in SectorDurations \X SectorDurations \X SectorDurations}

\* no record, a record of lap 1, of lap 2, or of both
LapLists ==
  {<<>>} \cup {<<r>> : r \in LapRecords(1, 0) \cup LapRecords(2, 4)}
         \cup {<<r[1], r[2]>> : r \in LapRecords(1, 0) \X LapRecords(2, 4)}

Competitors ==
  {[driverCode |-> "VER", positions |-> SectorCurve]} \cup
  {[driverCode |-> "VER", positions |-> SectorCurve, laps |-> l,
    bestSectors |-> [s1 |-> I(2), s2 |-> null, s3 |-> I(1)]] : l \in LapLists}

GlobalBests == {null, [s1 |-> I(1), s2 |-> I(1), s3 |-> null]}

SectorTimes == {I(0), I(1), I(2), I(3), I(4), I(5), I(6), I(8)}

\* one driver's step of the build loop: position, derived lap, sectors
sectorStateOf(driver, rdBest, rt, trackLen) ==
  LET interp == interpolate(driver.positions, rt)
      currentLapNum == derivedLap(interp.s, trackLen)
  IN  [lap |-> currentLapNum,
       sectors |-> sectorsOf(driver, rdBest, currentLapNum, rt)]

SectorInit ==
  /\ raceData = null
  /\ raceTime = I(0)
  /\ maxTime = I(0)
  /\ prevOrderRef = <<>>
  /\ raceState = <<>>
  /\ threw = FALSE
  /\ samples = <<>>
  /\ query \in SectorTimes
  /\ called = "none"
  /\ returned = null
  /\ competitor \in Competitors
  /\ bestSectors \in GlobalBests
  /\ clockInit
  /\ pairInit

RevealSectors ==
  /\ called = "none"
  /\ called' = "sectors"
  /\ returned' = sectorStateOf(competitor, bestSectors, query,
                               trackLenOf([track |-> SectorTrack]))
  /\ UNCHANGED <<samples, query, competitor, bestSectors, sessionVars, clockVars, pairVars>>

SectorNext == RevealSectors

SectorSpec == SectorInit /\ [][SectorNext]_vars

(***************************************************************************)
(* Two replay sessions side by side: two instances of the hook, each with  *)
(* its own props, its own useMemo cell and its own prevOrderRef.           *)
(***************************************************************************)
\* three competitors that start level and spread out, and the lap-crossing
\* pair: the rank order differs between the grid window and later times
PairDatasets ==
  LapCrossing \cup
  {[track |-> [points |-> <<>>],
    drivers |-> [i \in 1..3 |->
                   withCode(curve(0, i - 1, MaxSamples), <<"A", "B", "VER">>[i])]]}

PairTimes == {I(0), I(1), I(SampleStep)}

\* one render of a hook instance with the props rd, rt: useMemo keeps the
\* value unless a dependency changed; prevOrderRef is the instance's own
renderInstance(inst, rd, rt) ==
  IF rd = inst.raceData /\ rt = inst.raceTime THEN inst
  ELSE LET r == useRaceState(rd, rt, inst.prevOrderRef)
       IN  [raceData |-> rd, raceTime |-> rt, prevOrderRef |-> r.prevOrder,
            raceState |-> r.states, threw |-> r.threw]

\* the previous order kept in one cell at module level instead of a useRef
hookCallSharedRef(ss, i, rd, rt) ==
  LET r == renderInstance(ss[i], rd, rt)
  IN  [k \in 1..Len(ss) |->
         IF k = i THEN r ELSE [ss[k] EXCEPT !.prevOrderRef = r.prevOrderRef]]

\* instance i of the hooks ss renders: nothing of another instance is read
\* or written
hookCall(ss, i, rd, rt) == [ss EXCEPT ![i] = renderInstance(ss[i], rd, rt)]

PairInit ==
  /\ raceData = null
  /\ raceTime = I(0)
  /\ maxTime = I(0)
  /\ prevOrderRef = <<>>
  /\ raceState = <<>>
  /\ threw = FALSE
  /\ samples = <<>>
  /\ query = I(0)
  /\ called = "none"
  /\ returned = null
  /\ competitor = null
  /\ bestSectors = null
  /\ clockInit
  /\ pairInit

\* session i is handed its dataset
PairLoad(i, d) ==
  /\ ~sessions[i].threw
  /\ sessions[i].raceData = null
  /\ sessions' = hookCall(sessions, i, d, sessions[i].raceTime)
  /\ alone' = [alone EXCEPT ![i] = renderInstance(alone[i], d, alone[i].raceTime)]
  /\ UNCHANGED <<sessionVars, callVars, clockVars>>

\* session i is handed a new query time
PairSetTime(i, t) ==
  /\ ~sessions[i].threw
  /\ sessions[i].raceData # null
  /\ sessions' = hookCall(sessions, i, sessions[i].raceData, t)
  /\ alone' = [alone EXCEPT ![i] = renderInstance(alone[i], alone[i].raceData, t)]
  /\ UNCHANGED <<sessionVars, callVars, clockVars>>

PairNext ==
  \/ \E i \in 1..2, d \in PairDatasets : PairLoad(i, d)
  \/ \E i \in 1..2, t \in PairTimes : PairSetTime(i, t)

PairSpec == PairInit /\ [][PairNext]_vars

(***************************************************************************)
(* The playback clock: ReplayController's time engine effect, its buttons  *)
(* and slider, and the window's animation frames.  A handler runs with the *)
(* render it causes and with the effect that render commits.               *)
(***************************************************************************)
MaxHandles == 6
MaxFrames == 4

\* frame timestamps in milliseconds, half a second apart
FrameTimes == {I(500 * k) : k \in 1..MaxFrames}

\* three of the speed buttons
Speeds == {R(1, 2), I(1), I(2)}

\* positions of the slider between 0 and maxTime
SliderValues == {I(0), I(1), R(7, 2), I(SampleStep)}

\* the lap-crossing pair, and a dataset without competitors (maxTime 0)
ClockDatasets == LapCrossing \cup {[track |-> [points |-> <<>>], drivers |-> <<>>]}

\* the two refs and the window's callback list and handle counter
window ==
  [rafRef |-> rafRef, lastFrameRef |-> lastFrameRef, callbacks |-> callbacks,
   lastHandle |-> lastHandle]

\* rafRef.current = requestAnimationFrame(loop), loop closing over the
\* speed and maxTime of the render that ran the effect
requestFrame(w, sp, mt) ==
  [rafRef |-> I(w.lastHandle + 1),
   lastFrameRef |-> w.lastFrameRef,
   callbacks |-> w.callbacks \cup
                   {[handle |-> I(w.lastHandle + 1), speed |-> sp, maxTime |-> mt]},
   lastHandle |-> w.lastHandle + 1]

\* stopLoop without cancelAnimationFrame
stopLoopNoCancel(w) ==
  [rafRef |-> none, lastFrameRef |-> none, callbacks |-> w.callbacks,
   lastHandle |-> w.lastHandle]

\* stopLoop that leaves lastFrameRef.current as it is
stopLoopKeepsLastFrame(w) ==
  [rafRef |-> none,
   lastFrameRef |-> w.lastFrameRef,
   callbacks |-> IF w.rafRef = none THEN w.callbacks
                 ELSE {c \in w.callbacks : c.handle # w.rafRef},
   lastHandle |-> w.lastHandle]

\* if (rafRef.current) cancelAnimationFrame(rafRef.current);
\* rafRef.current = null; lastFrameRef.current = null
stopLoop(w) ==
  [rafRef |-> none,
   lastFrameRef |-> none,
   callbacks |-> IF w.rafRef = none THEN w.callbacks
                 ELSE {c \in w.callbacks : c.handle # w.rafRef},
   lastHandle |-> w.lastHandle]

\* the effect after a render in which playing, speed or maxTime changed:
\* the cleanup the previous run returned (none when it was not playing),
\* then the new run
timeEngine(w, wasPlaying, p, sp, mt) ==
  LET cleaned == IF wasPlaying THEN stopLoop(w) ELSE w
  IN  IF ~p THEN stopLoop(cleaned) ELSE requestFrame(cleaned, sp, mt)

\* next without the bound
nextTimeNoClamp(prev, dt, sp, mt) == Add(prev, Mul(dt, sp))

\* the updater handed to setRaceTime
nextTime(prev, dt, sp, mt) ==
  LET next == Add(prev, Mul(dt, sp))
  IN  IF Gt(next, mt) THEN mt ELSE next

\* loop(now) of the callback cb, which the window took off its list: the
\* refs and the raceTime it leaves
loop(w, cb, ts, prev) ==
  LET taken == [w EXCEPT !.callbacks = @ \ {cb}]
      stamped == [taken EXCEPT !.lastFrameRef = ts]
  IN  IF w.lastFrameRef = none
      THEN [window |-> requestFrame(stamped, cb.speed, cb.maxTime),
            raceTime |-> prev]
      ELSE [window |-> requestFrame(stamped, cb.speed, cb.maxTime),
            raceTime |-> nextTime(prev, Div(Sub(ts, w.lastFrameRef), I(1000)),
                                  cb.speed, cb.maxTime)]

\* the refs and the callback list become w
setWindow(w) ==
  /\ rafRef' = w.rafRef
  /\ lastFrameRef' = w.lastFrameRef
  /\ callbacks' = w.callbacks
  /\ lastHandle' = w.lastHandle

\* the commit of a render with the state p, sp, mt: the effect runs when one
\* of its dependencies changed
commit(w, p, sp, mt) ==
  IF <<p, sp, mt>> = <<playing, speed, maxTime>> THEN setWindow(w)
  ELSE setWindow(timeEngine(w, playing, p, sp, mt))

\* the fetch resolves: setRaceData(data), setMaxTime(maxT)
FetchResolves(d) ==
  /\ ~threw
  /\ raceData = null
  /\ lastHandle < MaxHandles
  /\ raceData' = afterRender(d, raceTime)
  /\ maxTime' = IF loadRaises(d) THEN maxTime ELSE lastSampleMax(d.drivers, 1, I(0))
  /\ render(d, raceTime)
  /\ commit(window, playing, speed, maxTime')
  /\ UNCHANGED <<raceTime, playing, speed, frameTime, callVars, pairVars>>

\* the Play / Pause button: setPlaying(!playing)
ClickPlayPause ==
  /\ ~threw
  /\ lastHandle < MaxHandles
  /\ playing' = ~playing
  /\ commit(window, ~playing, speed, maxTime)
  /\ UNCHANGED <<raceData, raceTime, maxTime, prevOrderRef, raceState, threw,
                 speed, frameTime, callVars, pairVars>>

\* the Reset button: setPlaying(false); setRaceTime(0)
ClickReset ==
  /\ ~threw
  /\ playing' = FALSE
  /\ raceTime' = I(0)
  /\ raceData' = afterRender(raceData, I(0))
  /\ render(raceData, I(0))
  /\ commit(window, FALSE, speed, maxTime)
  /\ UNCHANGED <<maxTime, speed, frameTime, callVars, pairVars>>

\* a speed button: setSpeed(s)
ClickSpeed(sp) ==
  /\ ~threw
  /\ lastHandle < MaxHandles
  /\ speed' = sp
  /\ commit(window, playing, sp, maxTime)
  /\ UNCHANGED <<raceData, raceTime, maxTime, prevOrderRef, raceState, threw,
                 playing, frameTime, callVars, pairVars>>

\* the slider's onChange: setRaceTime(value); lastFrameRef.current = null
SliderChange(t) ==
  /\ ~threw
  /\ Le(I(0), t) /\ Le(t, maxTime)
  /\ raceTime' = t
  /\ raceData' = afterRender(raceData, t)
  /\ render(raceData, t)
  /\ setWindow([window EXCEPT !.lastFrameRef = none])
  /\ UNCHANGED <<maxTime, playing, speed, frameTime, callVars, pairVars>>

\* the window runs a requested callback with the frame's timestamp
AnimationFrame(ts) ==
  /\ ~threw
  /\ lastHandle < MaxHandles
  /\ Gt(ts, frameTime)
  /\ frameTime' = ts
  /\ \E cb \in callbacks :
     \E r \in {loop(window, cb, ts, raceTime)} :
       /\ raceTime' = r.raceTime
       /\ raceData' = afterRender(raceData, r.raceTime)
       /\ render(raceData, r.raceTime)
       /\ setWindow(r.window)
  /\ UNCHANGED <<maxTime, playing, speed, callVars, pairVars>>

ClockNext ==
  \/ \E d \in ClockDatasets : FetchResolves(d)
  \/ ClickPlayPause
  \/ ClickReset
  \/ \E sp \in Speeds : ClickSpeed(sp)
  \/ \E t \in SliderValues : SliderChange(t)
  \/ \E ts \in FrameTimes : AnimationFrame(ts)

ClockSpec == Init /\ [][ClockNext]_vars

(***************************************************************************)
(* Properties                                                              *)
(***************************************************************************)
\* the snapshot a fresh reducer instance (no carried order) returns
freshStates(rd, rt) == useRaceState(rd, rt, <<>>).states

\* a snapshot without its rank change
exceptRankChange(st) ==
  [i \in 1..Len(st) |->
     <<st[i].driverCode, st[i].s, st[i].lap, st[i].gap, st[i].interval,
       st[i].inPit, st[i].compound>>]

\* order, distance, lap, gap and interval of a snapshot
timing(st) ==
  [i \in 1..Len(st) |->
     <<st[i].driverCode, st[i].s, st[i].lap, st[i].gap, st[i].interval>>]

\* the first sample distance of the competitor with this code
firstSample(code) == dataOf(raceData.drivers, code).positions[1].s

\* current distance minus first sample distance, for the snapshot's entry i
traveled(i) == Sub(raceState[i].s, firstSample(raceState[i].driverCode))

sampled(rd) == {k \in 1..Len(rd.drivers) : hasPositions(rd.drivers[k])}

\* the latest and the earliest sample time of the dataset
lastTime(rd) ==
  LET ts == {rd.drivers[k].positions[Len(rd.drivers[k].positions)].t : k \in sampled(rd)}
  IN  CHOOSE t \in ts : \A u \in ts : Le(u, t)
firstTime(rd) ==
  LET ts == {rd.drivers[k].positions[1].t : k \in sampled(rd)}
  IN  CHOOSE t \in ts : \A u \in ts : Le(t, u)

inGrid(code) == indexOf(GRID_ORDER, code) # -1

\* the time at which a non-decreasing curve first reaches distance d, by a
\* scan from the start; clamped to the curve's first and last sample
reachTime(points, d) ==
  IF Le(d, points[1].s) THEN points[1].t
  ELSE IF Ge(d, points[Len(points)].s) THEN points[Len(points)].t
  ELSE LET k == CHOOSE k \in 2..Len(points) :
                  /\ Ge(points[k].s, d)
                  /\ \A j \in 1..(k - 1) : Lt(points[j].s, d)
       IN  Add(points[k - 1].t,
               Mul(Div(Sub(d, points[k - 1].s), Sub(points[k].s, points[k - 1].s)),
                   Sub(points[k].t, points[k - 1].t)))

\* a whole number of thousandths
IsThousandths(x) == 1000 % x[2] = 0

\* C1: after the reset operation (the handlers that set the query time
\* non-sequentially: the Reset button and the timeline scrub), the next
\* snapshot reports positionChange = 0 for every competitor.
C1_ResetClearsRankChange ==
  [][(Reset \/ \E t \in QueryTimes : Scrub(t))
       => \A i \in 1..Len(raceState') : raceState'[i].positionChange = 0]_vars

\* C2: except for positionChange, the snapshot held after any history of
\* query times equals the snapshot a fresh reducer returns for the same
\* (dataset, query time): order, distance, lap, gap, interval, inPit, compound.
C2_PureExceptRankChange ==
  ~threw =>
    exceptRankChange(raceState) = exceptRankChange(freshStates(raceData, raceTime))

\* reached by seeking back to the start after a different order was recorded
C2_Witness ==
  /\ ~threw
  /\ raceTime = I(0)
  /\ \E i \in 1..Len(raceState) : raceState[i].positionChange # 0

\* C3: in every non-empty snapshot the competitor at rank index 0 has
\* gap = 0 and interval = 0.
C3_LeaderGapZero ==
  Len(raceState) > 0 => raceState[1].gap = I(0) /\ raceState[1].interval = I(0)

\* a snapshot whose second competitor is a positive time behind the leader
C3_Witness ==
  /\ Len(raceState) >= 2
  /\ Gt(raceState[2].gap, I(0))
  /\ Gt(raceState[2].interval, I(0))

\* C4: on every run of the reducer, a competitor at index p of the previous
\* snapshot and at index n of the new one reports positionChange = p - n, a
\* competitor absent from the previous snapshot reports 0, and afterwards
\* prevOrderRef holds exactly the new snapshot's order of driver codes.
C4_RankChangeBookkeeping ==
  [][~threw' =>
       /\ \A i \in 1..Len(raceState') :
            LET p == indexOf(codesOf(raceState), raceState'[i].driverCode)
            IN  raceState'[i].positionChange = IF p = -1 THEN 0 ELSE p - (i - 1)
       /\ prevOrderRef' = codesOf(raceState')]_vars

\* a competitor that moved up two places since the previous snapshot
C4_Witness ==
  /\ ~threw
  /\ \E i \in 1..Len(raceState) : raceState[i].positionChange = 2

\* C5: for a query time above the dataset's last sample time the snapshot
\* (order, distance, lap, gap, interval) equals the snapshot at that last
\* time, for one below the first sample time it equals the snapshot at the
\* first time, and nothing is raised.
C5_OutOfRangeClamped ==
  (raceData # null /\ ~throwsOn(raceData) /\ sampled(raceData) # {}) =>
    /\ ~threw
    /\ Gt(raceTime, lastTime(raceData)) =>
         timing(raceState) = timing(freshStates(raceData, lastTime(raceData)))
    /\ Lt(raceTime, firstTime(raceData)) =>
         timing(raceState) = timing(freshStates(raceData, firstTime(raceData)))

\* C6: no dataset makes useRaceState raise (no competitors, empty or absent
\* positions, absent optional fields, a null entry), and the snapshot holds
\* no competitor without position samples.
C6_NeverRaises ==
  /\ ~threw
  /\ raceData # null =>
       \A i \in 1..Len(raceState) :
          \E k \in sampled(raceData) :
             raceData.drivers[k].driverCode = raceState[i].driverCode

\* C7: any two competitors of a snapshot whose distanceTraveled differ by
\* 0.5 or more are ranked by it: the larger has the smaller rank index.
C7_RankedByDistance ==
  ~threw =>
    \A i, j \in 1..Len(raceState) :
       Ge(Sub(traveled(i), traveled(j)), R(1, 2)) => i < j

\* C8: below query time 1.0 two competitors of the starting grid are ranked
\* in grid order whatever their samples are; a competitor outside the grid,
\* or any at query time 1.0 or more, keeps its interpolated distance.
C8_GridOrderForced ==
  ~threw =>
    /\ Lt(raceTime, I(1)) =>
         \A i, j \in 1..Len(raceState) :
            (/\ inGrid(raceState[i].driverCode)
             /\ inGrid(raceState[j].driverCode)
             /\ indexOf(GRID_ORDER, raceState[i].driverCode)
                  < indexOf(GRID_ORDER, raceState[j].driverCode)) => i < j
    /\ \A i \in 1..Len(raceState) :
         (Ge(raceTime, I(1)) \/ ~inGrid(raceState[i].driverCode)) =>
            raceState[i].s =
              interpolate(dataOf(raceData.drivers, raceState[i].driverCode).positions,
                          raceTime).s

\* C9: for every competitor behind the leader, with T the time the leader's
\* curve reached (own distanceTraveled + leader's first sample distance):
\* gap is 0 when raceTime - T is at most 0.001 and otherwise raceTime - T
\* rounded to a whole number of thousandths; gap and interval are never
\* negative.
C9_GapIsElapsedTime ==
  ~threw =>
    \A i \in 2..Len(raceState) :
       LET leaderCode == raceState[1].driverCode
           target == Add(traveled(i), firstSample(leaderCode))
           raw == Sub(raceTime,
                      reachTime(dataOf(raceData.drivers, leaderCode).positions, target))
       IN  /\ Le(raw, R(1, 1000)) => raceState[i].gap = I(0)
           /\ Gt(raw, R(1, 1000)) =>
                /\ IsThousandths(raceState[i].gap)
                /\ Le(RAbs(Sub(raceState[i].gap, raw)), R(1, 2000))
           /\ Ge(raceState[i].gap, I(0))
           /\ Ge(raceState[i].interval, I(0))

\* a raw gap of 0.00125 reported as 0.001
C9_Witness ==
  /\ ~threw
  /\ raceTime = R(1, 800)
  /\ \E i \in 2..Len(raceState) : raceState[i].gap = R(1, 1000)

\* C10: in the scenario (track length 1000, A and B) the snapshot at t = 10
\* has A first with distance 500, B second with distance 450, both with
\* distanceTraveled 500, and B's gap and interval are 0.
C10_Scenario ==
  (raceData \in Scenarios /\ raceTime = I(10)) =>
    /\ ~threw
    /\ Len(raceState) = 2
    /\ raceState[1].driverCode = "A" /\ raceState[1].s = I(500)
    /\ raceState[2].driverCode = "B" /\ raceState[2].s = I(450)
    /\ raceState[1].distanceTraveled = I(500)
    /\ raceState[2].distanceTraveled = I(500)
    /\ traveled(1) = I(500) /\ traveled(2) = I(500)
    /\ raceState[2].gap = I(0) /\ raceState[2].interval = I(0)

\* the scenario's snapshot at t = 10
C10_Witness ==
  /\ raceData \in Scenarios
  /\ raceTime = I(10)
  /\ Len(raceState) = 2

\* C11: for the competitor at rank index i >= 1, interval is raceTime minus
\* the time at which the curve of the competitor at index i-1 of the same
\* snapshot reached (own distanceTraveled + that competitor's first sample
\* distance), 0 when that is at most 0.001 and otherwise rounded to
\* thousandths; the competitor at index 1 has interval = gap.
C11_IntervalToCarAhead ==
  ~threw =>
    /\ \A i \in 2..Len(raceState) :
         LET aheadCode == raceState[i - 1].driverCode
             target == Add(traveled(i), firstSample(aheadCode))
             raw == Sub(raceTime,
                        reachTime(dataOf(raceData.drivers, aheadCode).positions, target))
         IN  /\ Le(raw, R(1, 1000)) => raceState[i].interval = I(0)
             /\ Gt(raw, R(1, 1000)) =>
                  /\ IsThousandths(raceState[i].interval)
                  /\ Le(RAbs(Sub(raceState[i].interval, raw)), R(1, 2000))
    /\ Len(raceState) >= 2 => raceState[2].interval = raceState[2].gap

\* a third-ranked competitor level with the car ahead and behind the leader
C11_Witness ==
  /\ ~threw
  /\ Len(raceState) = 3
  /\ raceState[3].interval = I(0)
  /\ Gt(raceState[3].gap, I(0))

\* the two position interpolations
interpolations == {"interpolate", "interpolateLapS"}

\* C12 as stated: interpolate returns exactly samples[0] for every
\* t <= samples[0].t and exactly samples[last] for every t >= samples[last].t,
\* and null for an empty sequence.
C12_BoundaryClampingAsStated ==
  called \in interpolations =>
    /\ samples = <<>> => returned = null
    /\ (samples # <<>> /\ Le(query, samples[1].t)) => returned = samples[1]
    /\ (samples # <<>> /\ Ge(query, samples[Len(samples)].t)) =>
         returned = samples[Len(samples)]

\* C12 amended: interpolate returns exactly samples[0] for every
\* t <= samples[0].t, exactly samples[last] for every t >= samples[last].t
\* that is above samples[0].t, and null for an empty sequence.
C12_BoundaryClamping ==
  called \in interpolations =>
    /\ samples = <<>> => returned = null
    /\ (samples # <<>> /\ Le(query, samples[1].t)) => returned = samples[1]
    /\ (samples # <<>> /\ Ge(query, samples[Len(samples)].t)
          /\ Gt(query, samples[1].t)) =>
         returned = samples[Len(samples)]

\* a query time equal to the last sample time of a curve that spans time
C12_Witness ==
  /\ called = "interpolate"
  /\ Len(samples) >= 2
  /\ Gt(samples[Len(samples)].t, samples[1].t)
  /\ query = samples[Len(samples)].t
  /\ returned = samples[Len(samples)]

\* x lies between a and b, in either order
between(x, a, b) == (Le(a, x) /\ Le(x, b)) \/ (Le(b, x) /\ Le(x, a))

\* C13: strictly between two adjacent samples interpolate returns the
\* linear interpolation of distance by time ratio; for (0,0),(10,100),
\* (20,300) it returns 50 at t = 5 and 200 at t = 15; for any t the returned
\* distance lies between the distances of two adjacent samples that bracket t
\* (or is the end sample's distance outside the curve).
C13_InterpolationExact ==
  (called = "interpolate" /\ samples # <<>>) =>
    /\ \A k \in 1..(Len(samples) - 1) :
         (Lt(samples[k].t, query) /\ Lt(query, samples[k + 1].t)) =>
            Mul(Sub(returned.s, samples[k].s), Sub(samples[k + 1].t, samples[k].t))
              = Mul(Sub(query, samples[k].t), Sub(samples[k + 1].s, samples[k].s))
    /\ (samples = ExactnessSamples /\ query = I(5)) => returned.s = I(50)
    /\ (samples = ExactnessSamples /\ query = I(15)) => returned.s = I(200)
    /\ \/ Le(query, samples[1].t) /\ returned.s = samples[1].s
       \/ Ge(query, samples[Len(samples)].t) /\ returned.s = samples[Len(samples)].s
       \/ \E k \in 1..(Len(samples) - 1) :
            /\ Le(samples[k].t, query) /\ Le(query, samples[k + 1].t)
            /\ between(returned.s, samples[k].s, samples[k + 1].s)

\* the example's second query
C13_Witness ==
  /\ called = "interpolate"
  /\ samples = ExactnessSamples
  /\ query = I(15)
  /\ returned.s = I(200)

\* C14: for every query time that equals the time of an interior sample i
\* (and of no other sample), interpolate returns the lap of sample i, not the
\* lap of sample i-1.
C14_LapStepsAtSample ==
  called = "interpolate" =>
    \A i \in 2..(Len(samples) - 1) :
       (/\ query = samples[i].t
        /\ Lt(samples[i - 1].t, query)
        /\ Lt(query, samples[i + 1].t)) => returned.lap = samples[i].lap

\* C15: for any time-sorted sample sequence and any query time the binary
\* search interpolations return what the linear-scan interpolate returns:
\* interpolateLapS the same distance and lap, interpolateTelemetry the same
\* value on its continuous channels.
C15_BinarySearchEquivalent ==
  samples # <<>> =>
    /\ called = "interpolateLapS" =>
         /\ returned.s = interpolate(samples, query).s
         /\ returned.lap = interpolate(samples, query).lap
    /\ called = "interpolateTelemetry" =>
         returned.speed = interpolate(samples, query).s

\* the distances of the curve never decrease / always increase
nonDecreasing(points) ==
  \A k \in 1..(Len(points) - 1) : Le(points[k].s, points[k + 1].s)
increasing(points) ==
  \A k \in 1..(Len(points) - 1) : Lt(points[k].s, points[k + 1].s)

\* the query time lies between the first and the last sample time
inRange(points, t) ==
  Len(points) > 0 /\ Le(points[1].t, t) /\ Le(t, points[Len(points)].t)

\* C16 as stated: for a time-sorted sequence with non-decreasing distance
\* (stretches of constant distance included) and t between the first and
\* last sample times, findTimeForS(samples, interpolate(samples, t).s) = t.
C16_RoundTripAsStated ==
  (called = "interpolate" /\ nonDecreasing(samples) /\ inRange(samples, query)) =>
    findTimeForS(samples, returned.s) = query

\* C16 amended: for a time-sorted sequence with strictly increasing distance
\* and t between the first and last sample times,
\* findTimeForS(samples, interpolate(samples, t).s) = t.
C16_RoundTrip ==
  (called = "interpolate" /\ increasing(samples) /\ inRange(samples, query)) =>
    findTimeForS(samples, returned.s) = query

\* a query strictly between two samples of a rising three-sample curve
C16_Witness ==
  /\ called = "interpolate"
  /\ Len(samples) = 3
  /\ increasing(samples)
  /\ Lt(samples[2].t, query) /\ Lt(query, samples[3].t)
  /\ findTimeForS(samples, returned.s) = query

\* the first index whose distance is at least d (there is one)
firstAtLeast(points, d) ==
  CHOOSE i \in 1..Len(points) :
    Ge(points[i].s, d) /\ \A j \in 1..(i - 1) : Lt(points[j].s, d)

\* C17 as stated: for a non-empty time-sorted sequence with non-decreasing
\* distance, a target at or below the first distance returns the first
\* time, a target at or above the last distance returns the last time, and a
\* target in between a time within [samples[i-1].t, samples[i].t], i the
\* first index whose distance is >= target.
C17_FindTimeClampsAsStated ==
  (called = "findTimeForS" /\ samples # <<>> /\ nonDecreasing(samples)) =>
    /\ Le(query, samples[1].s) => returned.time = samples[1].t
    /\ Ge(query, samples[Len(samples)].s) =>
         returned.time = samples[Len(samples)].t
    /\ (Gt(query, samples[1].s) /\ Lt(query, samples[Len(samples)].s)) =>
         LET i == firstAtLeast(samples, query)
         IN  Le(samples[i - 1].t, returned.time) /\ Le(returned.time, samples[i].t)

\* C17 amended: as stated, with the last time returned for a target at or
\* above the last distance that is above the first distance.
C17_FindTimeClamps ==
  (called = "findTimeForS" /\ samples # <<>> /\ nonDecreasing(samples)) =>
    /\ Le(query, samples[1].s) => returned.time = samples[1].t
    /\ (Ge(query, samples[Len(samples)].s) /\ Gt(query, samples[1].s)) =>
         returned.time = samples[Len(samples)].t
    /\ (Gt(query, samples[1].s) /\ Lt(query, samples[Len(samples)].s)) =>
         LET i == firstAtLeast(samples, query)
         IN  Le(samples[i - 1].t, returned.time) /\ Le(returned.time, samples[i].t)

\* a target beyond the last distance of a rising curve
C17_Witness ==
  /\ called = "findTimeForS"
  /\ Len(samples) >= 2
  /\ increasing(samples)
  /\ Gt(samples[Len(samples)].t, samples[1].t)
  /\ Gt(query, samples[Len(samples)].s)
  /\ returned.time = samples[Len(samples)].t

\* C18: on any time-sorted sequence, adjacent samples sharing a time or a
\* distance included, interpolate and findTimeForS divide by no zero: where
\* interpolate computes its ratio the two bracketing sample times differ,
\* findTimeForS returns the earlier sample's time when its two bracketing
\* distances are equal, and every returned distance and time is finite.
C18_NoZeroDenominator ==
  samples # <<>> =>
    /\ called = "interpolate" =>
         /\ IsFinite(returned.s) /\ IsFinite(returned.t)
         /\ (Gt(query, samples[1].t) /\ Lt(query, samples[Len(samples)].t)) =>
              LET i == scanFrom(samples, query, 1)
              IN  Lt(samples[i].t, samples[i + 1].t)
    /\ called = "findTimeForS" =>
         /\ IsFinite(returned.time)
         /\ (Gt(query, samples[1].s) /\ Lt(query, samples[Len(samples)].s)) =>
              LET i == bsearchS(samples, query, 0, Len(samples) - 1)
              IN  /\ i >= 1
                  /\ samples[i].s = samples[i + 1].s => returned.time = samples[i].t

\* a lookup between the ends of a curve with two samples at one time and two
\* at one distance
C18_Witness ==
  /\ called = "findTimeForS"
  /\ \E k \in 1..(Len(samples) - 1) : samples[k].t = samples[k + 1].t
  /\ \E k \in 1..(Len(samples) - 1) : samples[k].s = samples[k + 1].s
  /\ Gt(query, samples[1].s) /\ Lt(query, samples[Len(samples)].s)
  /\ IsFinite(returned.time)

\* C19: in every snapshot, for every competitor and any lap records, sector
\* 2 is never revealed while sector 1 is unrevealed, and sector 3 never
\* while sector 2 is unrevealed.
C19_SectorOrdering ==
  called = "sectors" =>
    /\ returned.sectors.s2 # null => returned.sectors.s1 # null
    /\ returned.sectors.s3 # null => returned.sectors.s2 # null

\* the completion time of sector k of a lap record whose sectors 1..k have
\* durations
completionTime(rec, k) ==
  CASE k = 1 -> Add(rec.startTime, rec.s1)
    [] k = 2 -> Add(Add(rec.startTime, rec.s1), rec.s2)
    [] k = 3 -> Add(Add(Add(rec.startTime, rec.s1), rec.s2), rec.s3)

sectorKeys == <<"s1", "s2", "s3">>

\* C20: a sector duration shown in a snapshot belongs to a lap record of the
\* competitor whose sector has completed: sector k is non-null only if some
\* record holds that duration as its sector k, has durations for sectors
\* 1..k, and queryTime >= its startTime + the sum of its sectors 1..k.
C20_SectorRevealTiming ==
  called = "sectors" =>
    \A k \in 1..3 :
       returned.sectors[sectorKeys[k]] # null =>
         /\ "laps" \in DOMAIN competitor
         /\ \E j \in 1..Len(competitor.laps) :
              LET rec == competitor.laps[j]
              IN  /\ rec[sectorKeys[k]] = returned.sectors[sectorKeys[k]].time
                  /\ \A i \in 1..k : rec[sectorKeys[i]] # null
                  /\ Ge(query, completionTime(rec, k))

\* the duration v is within epsilon of the best b (no best: never)
withinEpsilon(v, b) == b # null /\ Lt(RAbs(Sub(v, b)), EPSILON)

\* C21: a revealed sector is purple exactly when its duration is within
\* epsilon (0.005) of the global best of that sector, otherwise green exactly
\* when within epsilon of the competitor's personal best, otherwise yellow.
C21_SectorClassification ==
  called = "sectors" =>
    \A k \in 1..3 :
       LET key == sectorKeys[k]
           shown == returned.sectors[key]
           gb == IF bestSectors = null THEN null ELSE bestSectors[key]
           pb == IF "bestSectors" \in DOMAIN competitor
                 THEN competitor.bestSectors[key] ELSE null
       IN  shown # null =>
             shown.color = IF withinEpsilon(shown.time, gb) THEN "purple"
                           ELSE IF withinEpsilon(shown.time, pb) THEN "green"
                           ELSE "yellow"

\* the interpolated distance of the snapshot's entry i (before grid synthesis)
interpolatedS(i) ==
  interpolate(dataOf(raceData.drivers, raceState[i].driverCode).positions,
              raceTime).s

\* the lap a fresh reducer reports for this competitor at time t
lapAt(code, t) ==
  LET st == freshStates(raceData, t)
  IN  st[CHOOSE i \in 1..Len(st) : st[i].driverCode = code].lap

\* C22: every competitor's lap is max(1, floor(interpolated distance /
\* track length) + 1): it is at least 1, it is 1 below one track length and
\* otherwise the lap whose stretch of track holds the distance; on a
\* non-decreasing curve it never decreases with the query time.
C22_LapDerivation ==
  (~threw /\ raceData # null) =>
    \A i \in 1..Len(raceState) :
       LET lap == raceState[i].lap
           len == I(trackLenOf(raceData))
           s == interpolatedS(i)
           code == raceState[i].driverCode
       IN  /\ lap >= 1
           /\ Lt(s, len) => lap = 1
           /\ Ge(s, len) =>
                /\ Le(Mul(I(lap - 1), len), s)
                /\ Lt(s, Mul(I(lap), len))
           /\ nonDecreasing(dataOf(raceData.drivers, code).positions) =>
                \A t \in QueryTimes : Le(t, raceTime) => lapAt(code, t) <= lap

\* a competitor behind the line in lap 1 and one that has reached lap 2
C22_Witness ==
  /\ ~threw
  /\ \E i \in 1..Len(raceState) : raceState[i].lap = 2 /\ lapAt(raceState[i].driverCode, I(0)) = 1
  /\ \E i \in 1..Len(raceState) : raceState[i].lap = 1

\* the same dataset with its competitors in the opposite key order
reversedData == [raceData EXCEPT !.drivers = Reverse(@)]

\* every competitor of the snapshot has travelled the same distance
allLevel == \A i, j \in 1..Len(raceState) : traveled(i) = traveled(j)

\* the first sample distances of the snapshot's competitors differ pairwise
distinctStarts ==
  \A i, j \in 1..Len(raceState) :
     i # j => firstSample(raceState[i].driverCode) # firstSample(raceState[j].driverCode)

\* the snapshot is in descending first-sample distance and is the same for
\* the opposite key order of the dataset
inStartOrder ==
  /\ \A i, j \in 1..Len(raceState) :
       i < j => Ge(firstSample(raceState[i].driverCode),
                   firstSample(raceState[j].driverCode))
  /\ codesOf(freshStates(reversedData, raceTime)) = codesOf(raceState)

\* C23 as stated: when all distanceTraveled values are equal, outside the
\* grid-synthesis window, the snapshot order is descending first-sample
\* distance and does not depend on the order of the dataset mapping.
C23_TieBreakAsStated ==
  (~threw /\ raceData # null /\ Ge(raceTime, I(1)) /\ allLevel) => inStartOrder

\* C23 amended: the same for competitors whose first-sample distances
\* differ pairwise.
C23_TieBreak ==
  (~threw /\ raceData # null /\ Ge(raceTime, I(1)) /\ allLevel /\ distinctStarts)
    => inStartOrder

\* two level competitors that the sort had to swap
C23_Witness ==
  /\ ~threw
  /\ raceData # null
  /\ Ge(raceTime, I(1))
  /\ Len(raceState) = 2
  /\ allLevel
  /\ distinctStarts
  /\ raceData.drivers[1].driverCode = raceState[2].driverCode
\* the rank changes a snapshot reports, by competitor
rankChanges(st) == [i \in 1..Len(st) |-> <<st[i].driverCode, st[i].positionChange>>]

C25_DatasetNeverMutated ==
  [][/\ (raceData = null /\ raceData' # null) => raceData' \in Datasets
     /\ raceData # null => (raceData' = raceData /\ maxTime' = maxTime)]_vars

\* a call at or beyond the last sample time, where interpolate hands out the
\* dataset's own last sample, after which a rank change was recorded
C25_Witness ==
  /\ ~threw
  /\ raceData # null
  /\ Len(raceState) >= 2
  /\ Ge(raceTime, lastTime(raceData))
  /\ \E i \in 1..Len(raceState) : raceState[i].positionChange # 0

\* the entries of the dataset that hold at least one position sample
withSamples(rd) ==
  {k \in 1..Len(rd.drivers) :
     /\ rd.drivers[k] # null
     /\ "positions" \in DOMAIN rd.drivers[k]
     /\ Len(rd.drivers[k].positions) >= 1}

\* no two entries of the dataset carry the same code
distinctCodes(rd) ==
  \A j, k \in 1..Len(rd.drivers) :
     (j # k /\ rd.drivers[j] # null /\ rd.drivers[k] # null)
       => rd.drivers[j].driverCode # rd.drivers[k].driverCode

\* C26: every snapshot the hook returns for a loaded dataset (distinct
\* codes) holds each competitor with at least one position sample exactly
\* once and nothing else, at every query time; its set of competitors is
\* therefore the same on every call.
C26_SnapshotMembership ==
  (~threw /\ raceData # null /\ distinctCodes(raceData)) =>
    /\ \A k \in withSamples(raceData) :
         Cardinality({i \in 1..Len(raceState) :
                        raceState[i].driverCode = raceData.drivers[k].driverCode}) = 1
    /\ \A i \in 1..Len(raceState) :
         \E k \in withSamples(raceData) :
            raceData.drivers[k].driverCode = raceState[i].driverCode

\* a dataset of one competitor with samples and one without, queried after
\* the last sample
C26_Witness ==
  /\ ~threw
  /\ raceData # null
  /\ distinctCodes(raceData)
  /\ Len(raceData.drivers) = 2
  /\ Cardinality(withSamples(raceData)) = 1
  /\ Len(raceState) = 1
  /\ Gt(raceTime, lastTime(raceData))

RECURSIVE sumOfChanges(_, _)
\* the sum of positionChange over the entries of a snapshot from i on
sumOfChanges(st, i) ==
  IF i > Len(st) THEN 0 ELSE st[i].positionChange + sumOfChanges(st, i + 1)

\* C27: whenever the callback runs without raising (a new query time, in
\* either direction, or the load), the rank changes of the snapshot it
\* returns sum to 0, and when that snapshot has the order of the snapshot
\* before it every rank change is 0.
C27_RankChangesCancel ==
  [][(<<raceData, raceTime>>' # <<raceData, raceTime>> /\ ~threw'
        /\ raceData' # null /\ distinctCodes(raceData')) =>
       /\ sumOfChanges(raceState', 1) = 0
       /\ codesOf(raceState') = codesOf(raceState) =>
            \A i \in 1..Len(raceState') : raceState'[i].positionChange = 0]_vars

\* three competitors of which one gained and one lost places in the last call
C27_Witness ==
  /\ ~threw
  /\ Len(raceState) = 3
  /\ \E i, j \in 1..Len(raceState) :
       raceState[i].positionChange > 0 /\ raceState[j].positionChange < 0

\* C28: a frame update never leaves raceTime above maxTime; while playing
\* with a positive speed a frame never lowers raceTime; and a frame that
\* finds raceTime at maxTime leaves it at maxTime.
C28_PlaybackClockBound ==
  [][(\E ts \in FrameTimes : AnimationFrame(ts)) =>
       /\ Le(raceTime', maxTime')
       /\ (playing /\ Gt(speed, I(0))) => Ge(raceTime', raceTime)
       /\ raceTime = maxTime => raceTime' = maxTime]_vars

\* playing at the end of a loaded race, two or more frames after the start
C28_Witness ==
  /\ playing
  /\ Gt(maxTime, I(0))
  /\ raceTime = maxTime
  /\ frameTime = lastFrameRef
  /\ Ge(frameTime, I(1000))

\* C29: Play, Pause and a move of the slider leave no frame timestamp
\* behind; a frame that finds none records its own and leaves raceTime as it
\* is; and a frame that advances raceTime measures from the frame before it.
C29_NoTimeJump ==
  [][/\ (ClickPlayPause \/ \E t \in SliderValues : SliderChange(t))
          => lastFrameRef' = none
     /\ ((\E ts \in FrameTimes : AnimationFrame(ts)) /\ lastFrameRef = none)
          => (raceTime' = raceTime /\ frameTime' = lastFrameRef')
     /\ ((\E ts \in FrameTimes : AnimationFrame(ts)) /\ raceTime' # raceTime)
          => frameTime = lastFrameRef]_vars

\* playing, with the slider moved to 3.5 after two frames and the next
\* frame's timestamp recorded
C29_Witness ==
  /\ playing
  /\ raceTime = R(7, 2)
  /\ frameTime = lastFrameRef
  /\ Ge(frameTime, I(1500))

\* C30: Pause keeps raceTime and Reset sets it to 0 with playing false, and
\* both leave no requested animation frame behind; while not playing no
\* frame changes raceTime, which changes only by the slider or by Reset.
C30_PauseAndResetStopClock ==
  [][/\ (playing /\ ClickPlayPause)
          => (raceTime' = raceTime /\ ~playing' /\ callbacks' = {})
     /\ ClickReset => (raceTime' = I(0) /\ ~playing' /\ callbacks' = {})
     /\ (~playing /\ \E ts \in FrameTimes : AnimationFrame(ts))
          => raceTime' = raceTime
     /\ (~playing /\ raceTime' # raceTime)
          => (ClickReset \/ \E t \in SliderValues : SliderChange(t))]_vars

\* paused a quarter of a second into the race, after two frames at half speed
C30_Witness ==
  /\ ~playing
  /\ raceTime = R(1, 4)
  /\ callbacks = {}
  /\ Ge(frameTime, I(1000))

====
